---- MODULE Spec2Model ----
(***************************************************************************)
(* Model of mp_data/data.py: consolidation of worker assignments into one  *)
(* observation per HIT, z-score outlier filtering per (marketplace, date)  *)
(* bucket, and the time-series / latest-snapshot exports.                  *)
(*                                                                         *)
(* Representation.  A nullable column is <<>> (Python None) or <<v>>.      *)
(* Floats are fixed-point integers with UNITS units per dollar; the value  *)
(* sets below are chosen so that every division the code performs is       *)
(* exact.  A date string "YYYY-MM-DD" is the integer YYYYMMDD, whose order *)
(* is the lexicographic order of the string.  A domain name is the         *)
(* sequence of its dot-separated labels.  uuid4 values are distinct        *)
(* integers.                                                               *)
(***************************************************************************)
EXTENDS Integers, Sequences, FiniteSets, TLC

VARIABLES
    pc,                     \* position of the running function / command
    err,                    \* the exception that ended the run, or "none"
    assignments,            \* argument of a _consolidate_assignments call
    res,                    \* its result
    assignments_dict,       \* _fetch_assignments(): HIT index -> assignments
    hit_idx,                \* next HIT of the loop in export
    all_observations,       \* export: all_observations
    filtered_observations,  \* export: filtered_observations
    out_dir,                \* file name -> rows
    ts_idx,                 \* next file of the write loop in _export_timeseries
    latest_done,            \* marketplaces _export_latest_observations wrote
    written                 \* names of the files this run has written

vars == <<pc, err, assignments, res, assignments_dict, hit_idx,
          all_observations, filtered_observations, out_dir, ts_idx,
          latest_done, written>>

----------------------------------------------------------------------------
(* Bounds *)

MaxReports == 4     \* assignments per HIT in the consolidation specification
MaxObs == 4         \* observations in the filter/export specification
NumHits == 4        \* HITs in the store of the export-command specification

----------------------------------------------------------------------------
(* Values *)

None == <<>>
Some(v) == <<v>>

OUTLIER_THRESHOLD == 1
MIN_MATCHING_RESULT == 2

UNITS == 2

Range(s) == {s[i] : i \in 1..Len(s)}

SeqsUpTo(S, n) == UNION { [1..k -> S] : k \in 0..n }

\* datetime: the date as YYYYMMDD and the hour of the day
DateTime(d, t) == [date |-> d, time |-> t]

RECURSIVE SeqSum(_)
SeqSum(s) == IF s = <<>> THEN 0 ELSE Head(s) + SeqSum(Tail(s))

----------------------------------------------------------------------------
(* db.py: HIT and Assignment rows *)

HIT(creation_time, url_param, domain_name) ==
    [creation_time |-> creation_time, url_param |-> url_param,
     domain_name |-> domain_name]

Assignment(hit, in_stock, price, currency, quantity) ==
    [hit |-> hit, in_stock |-> in_stock, price |-> price,
     currency |-> currency, quantity |-> quantity]

----------------------------------------------------------------------------
(* data.py: _Observation *)

_Observation(datetime, price_cents, currency_symbol, quantity, in_stock, domain_name, url, uuid) ==
    [datetime |-> datetime, price_cents |-> price_cents,
     currency_symbol |-> currency_symbol, quantity |-> quantity,
     in_stock |-> in_stock, domain_name |-> domain_name, url |-> url,
     uuid |-> uuid]

----------------------------------------------------------------------------
(* data.py: _consolidate_assignments *)

Returned(v) == [tag |-> "return", value |-> v]
Raised(e) == [tag |-> "raise", value |-> Some(e)]
NoResult == [tag |-> "pending", value |-> None]

\* t = (a.price, a.quantity, a.currency, a.in_stock)
ReportTuple(a) == <<a.price, a.quantity, a.currency, a.in_stock>>

\* count[t] += 1 on a defaultdict(int): a dict keeps its keys in insertion
\* order, so count is the sequence of its (key, value) items.
CountIncr(count, t) ==
    IF \E i \in 1..Len(count) : count[i].k = t
    THEN [i \in 1..Len(count) |->
            IF count[i].k = t THEN [k |-> t, n |-> count[i].n + 1]
            ELSE count[i]]
    ELSE Append(count, [k |-> t, n |-> 1])

RECURSIVE CountAll(_, _)
CountAll(count, as) ==
    IF as = <<>> THEN count
    ELSE CountAll(CountIncr(count, ReportTuple(Head(as))), Tail(as))

\* max(count.values())
MaxCount(count) ==
    CHOOSE n \in {count[i].n : i \in 1..Len(count)} :
        \A i \in 1..Len(count) : count[i].n <= n

\* next(k for k in count if count[k] == max_count)
Majority(count, max_count) ==
    LET i == CHOOSE j \in 1..Len(count) :
                 /\ count[j].n = max_count
                 /\ \A l \in 1..(j - 1) : count[l].n # max_count
    IN count[i].k

HasMajority_NoThreshold(max_count) == max_count >= MIN_MATCHING_RESULT - 1

\* if max_count >= MIN_MATCHING_RESULT
HasMajority(max_count) == max_count >= MIN_MATCHING_RESULT

_check_legit_quantity(quantity) ==
    5 <= quantity /\ quantity <= 500 /\ quantity % 5 = 0

\* price == 0 (None == 0 is False)
PriceIsZero(price) == price = Some(0)

_consolidate_assignments(as, uuid) ==
    IF Len(as) = 0 THEN Returned(None)
    ELSE
      LET count == CountAll(<<>>, as)
          max_count == MaxCount(count)
      IN IF HasMajority(max_count)
         THEN LET majority == Majority(count, max_count)
                  price == majority[1]
                  quantity == majority[2]
                  currency == majority[3]
                  in_stock == majority[4]
                  hit == as[1].hit
              IN \* 5 <= None raises TypeError in _check_legit_quantity,
                 \* which is evaluated before price == 0
                 IF quantity = None THEN Raised("TypeError")
                 ELSE IF ~_check_legit_quantity(quantity[1])
                         \/ PriceIsZero(price)
                 THEN Returned(None)
                 ELSE Returned(Some(_Observation(
                          hit.creation_time, price, currency, quantity,
                          in_stock, hit.domain_name, hit.url_param, uuid)))
         ELSE Returned(None)

----------------------------------------------------------------------------
(* data.py: derived properties of _Observation *)

Failed(r) == r.tag = "raise"

FirstFailure(results) ==
    results[CHOOSE j \in 1..Len(results) :
                /\ Failed(results[j])
                /\ \A l \in 1..(j - 1) : ~Failed(results[l])]

AnyFailure(results) == \E i \in 1..Len(results) : Failed(results[i])

Values(results) == [i \in 1..Len(results) |-> results[i].value]

\* self.price_cents / 100; None / 100 raises TypeError
price(o) ==
    IF o.price_cents = None THEN Raised("TypeError")
    ELSE Returned((o.price_cents[1] * UNITS) \div 100)

\* self.datetime.date().strftime("%Y-%m-%d")
date_str(o) == o.datetime.date

\* iso4217parse.parse(symbol): the candidate currencies of a symbol, as
\* their alpha3 codes; a symbol may have several candidates or none, and
\* an argument that is not a string raises ValueError.
Iso4217Parse(symbol) ==
    IF symbol = None THEN Raised("ValueError")
    ELSE Returned(CASE symbol[1] = "$" -> <<"USD", "CAD", "AUD">>
                    [] symbol[1] = "E" -> <<"EUR">>
                    [] symbol[1] = "Y" -> <<"CNY", "JPY">>
                    [] OTHER -> <<>>)

\* parse(...)[0].alpha3; [][0] raises IndexError
FirstCandidate(parsed) ==
    IF Failed(parsed) THEN parsed
    ELSE IF parsed.value = <<>> THEN Raised("IndexError")
    ELSE Returned(parsed.value[1])

iso_currency(o) ==
    IF o.currency_symbol = Some("$") THEN Returned("USD")
    ELSE FirstCandidate(Iso4217Parse(o.currency_symbol))

\* The rate of CurrencyConverter.convert(amount, currency, "USD", date) on
\* the date, in hundredths
ExchangeRate(currency, d) ==
    CASE currency = "EUR" -> IF d <= 20240101 THEN 200 ELSE 400
      [] currency = "CNY" -> 100
      [] currency = "JPY" -> 300
      [] OTHER -> 100

\* the body of price_usd, iso being self.iso_currency and p self.price
Convert(iso, p, d) ==
    IF Failed(iso) THEN iso
    ELSE IF Failed(p) THEN p
    ELSE IF iso.value = "USD" THEN p
    ELSE Returned((p.value * ExchangeRate(iso.value, d)) \div 100)

price_usd(o) == Convert(iso_currency(o), price(o), o.datetime.date)

\* self.price_usd / self.quantity
Divide(p, quantity) ==
    IF Failed(p) THEN p
    ELSE IF quantity = None THEN Raised("TypeError")
    ELSE IF quantity[1] = 0 THEN Raised("ZeroDivisionError")
    ELSE Returned(p.value \div quantity[1])

unit_price_usd(o) == Divide(price_usd(o), o.quantity)

\* list(map(attrgetter("unit_price_usd"), observations))
UnitPrices(observations) ==
    [i \in 1..Len(observations) |-> unit_price_usd(observations[i])]

\* strip a leading "www." and replace "." by "_": the key is the sequence
\* of the labels that the underscores join
marketplace(o) ==
    IF Len(o.domain_name) >= 2 /\ Head(o.domain_name) = "www"
    THEN Tail(o.domain_name)
    ELSE o.domain_name

----------------------------------------------------------------------------
(* Lists, sets and dicts of Python *)

\* the keys of a dict filled in the order of s (first appearance)
RECURSIVE Dedupe(_)
Dedupe(s) ==
    IF s = <<>> THEN <<>>
    ELSE IF s[Len(s)] \in Range(SubSeq(s, 1, Len(s) - 1))
    THEN Dedupe(SubSeq(s, 1, Len(s) - 1))
    ELSE Append(Dedupe(SubSeq(s, 1, Len(s) - 1)), s[Len(s)])

\* the orders in which a set can be iterated
Orders(S) ==
    { f \in [1..Cardinality(S) -> S] : \A x \in S : \E i \in DOMAIN f : f[i] = x }

RECURSIVE Flatten(_)
Flatten(ss) == IF ss = <<>> THEN <<>> ELSE Head(ss) \o Flatten(Tail(ss))

\* x put into the sorted list of <<key, item>> pairs, after the pairs whose
\* key is not greater
Insert(sorted, x) ==
    SelectSeq(sorted, LAMBDA y : y[1] <= x[1]) \o <<x>>
        \o SelectSeq(sorted, LAMBDA y : y[1] > x[1])

\* stable sort of a list of <<key, item>> pairs, ascending in the key
RECURSIVE SortPairs(_)
SortPairs(s) ==
    IF s = <<>> THEN <<>>
    ELSE Insert(SortPairs(SubSeq(s, 1, Len(s) - 1)), s[Len(s)])

\* the items of a list of <<key, item>> pairs
Items(pairs) == [i \in 1..Len(pairs) |-> pairs[i][2]]

\* the middle value of a sorted list, or the mean of the two middle values
Middle(sorted) ==
    IF Len(sorted) % 2 = 1 THEN sorted[(Len(sorted) + 1) \div 2]
    ELSE (sorted[Len(sorted) \div 2] + sorted[Len(sorted) \div 2 + 1]) \div 2

\* np.median
median(xs) == Middle(Items(SortPairs([i \in 1..Len(xs) |-> <<xs[i], xs[i]>>])))

----------------------------------------------------------------------------
(* data.py: _filter_outliers *)

\* if len(indices) < 3
TooFewToFilter(n) == n < 3

\* sum((n * x - sum(xs))^2 for x in xs)
SquaredDeviations(xs) ==
    SeqSum([j \in 1..Len(xs) |->
               (Len(xs) * xs[j] - SeqSum(xs)) * (Len(xs) * xs[j] - SeqSum(xs))])

ZScoreAllowed_Inclusive(xs, i) ==
    /\ SquaredDeviations(xs) # 0
    /\ Len(xs) * (Len(xs) * xs[i] - SeqSum(xs)) * (Len(xs) * xs[i] - SeqSum(xs))
          <= OUTLIER_THRESHOLD * OUTLIER_THRESHOLD * SquaredDeviations(xs)

\* np.abs(stats.zscore(df)) < OUTLIER_THRESHOLD for row i, with
\* zscore = (x - mean) / std and std = sqrt(sum((x - mean)^2) / n).
\* Multiplied through by n, |z_i| < T is
\* n * (n * x_i - sum)^2 < T^2 * sum((n * x - sum)^2).  When std = 0 the
\* z-score is 0 / 0 = nan, and nan < T is False.
ZScoreAllowed(xs, i) ==
    /\ SquaredDeviations(xs) # 0
    /\ Len(xs) * (Len(xs) * xs[i] - SeqSum(xs)) * (Len(xs) * xs[i] - SeqSum(xs))
          < OUTLIER_THRESHOLD * OUTLIER_THRESHOLD * SquaredDeviations(xs)

\* df[condition].index: the uuids of the rows whose z-score is allowed
AllowedUuids(indices, xs) ==
    { indices[i] : i \in { j \in 1..Len(xs) : ZScoreAllowed(xs, j) } }

\* the body of the loop, after curr_observations and unit_prices
FilterCurrent(curr_observations, unit_prices) ==
    IF AnyFailure(unit_prices) THEN FirstFailure(unit_prices)
    ELSE IF TooFewToFilter(Len(curr_observations))
    THEN Returned(curr_observations)
    ELSE Returned(SelectSeq(curr_observations, LAMBDA o :
             o.uuid \in AllowedUuids(
                 [i \in 1..Len(curr_observations) |-> curr_observations[i].uuid],
                 Values(unit_prices))))

\* curr_observations of one iteration of the loop
CurrObservations(observations, m, d) ==
    SelectSeq(observations, LAMBDA o : marketplace(o) = m /\ date_str(o) = d)

\* one iteration of the loop over itertools.product(marketplaces, dates)
FilterBucket(observations, m, d) ==
    FilterCurrent(CurrObservations(observations, m, d),
                  UnitPrices(CurrObservations(observations, m, d)))

\* results, from what the iterations add to it; the first failure ends the
\* call
Collect(buckets) ==
    IF AnyFailure(buckets) THEN FirstFailure(buckets)
    ELSE Returned(Flatten(Values(buckets)))

\* itertools.product(marketplaces, dates)
Product(m_order, d_order) ==
    Flatten([i \in 1..Len(m_order) |->
                [j \in 1..Len(d_order) |-> <<m_order[i], d_order[j]>>]])

FilterEach(observations, product) ==
    Collect([i \in 1..Len(product) |->
                FilterBucket(observations, product[i][1], product[i][2])])

\* marketplaces and dates are sets: m_order and d_order are the orders in
\* which this run iterates them
_filter_outliers(observations, m_order, d_order) ==
    FilterEach(observations, Product(m_order, d_order))

----------------------------------------------------------------------------
(* data.py: _export_timeseries and _export_latest_marketplace *)

TimeseriesName(k) == <<k, "timeseries">>
LatestName(m) == <<m, "latest">>

SortTimeseries_Unsorted(rows) == rows

\* pd.DataFrame(v).sort_values(by=["Date"])
SortTimeseries(rows) ==
    Items(SortPairs([i \in 1..Len(rows) |-> <<rows[i].Date, rows[i]>>]))

DailyValue_Low(unit_prices) ==
    SortPairs([i \in 1..Len(unit_prices) |->
                 <<unit_prices[i], unit_prices[i]>>])[(Len(unit_prices) + 1) \div 2][1]

\* np.median(unit_prices)
DailyValue(unit_prices) == median(unit_prices)

\* key = (o.date_str, o.marketplace)
DailyKey(o) == <<date_str(o), marketplace(o)>>

\* the keys of daily_unit_prices, in insertion order
DailyKeys(observations) ==
    Dedupe([i \in 1..Len(observations) |-> DailyKey(observations[i])])

\* daily_unit_prices[key]
DailyUnitPrices(observations, key) ==
    Values(UnitPrices(SelectSeq(observations, LAMBDA o : DailyKey(o) = key)))

\* the rows of daily_medians[m], from the keys of m in daily_unit_prices
MedianRows(observations, keys) ==
    [i \in 1..Len(keys) |->
        [Date |-> keys[i][1],
         Median_Unit_Price |-> DailyValue(DailyUnitPrices(observations, keys[i]))]]

\* daily_medians[m]
DailyMedians(observations, m) ==
    MedianRows(observations,
               SelectSeq(DailyKeys(observations), LAMBDA key : key[2] = m))

\* the files of the last loop, ks being the keys of daily_medians
TimeseriesFiles(observations, ks) ==
    [i \in 1..Len(ks) |->
        [name |-> TimeseriesName(ks[i]),
         rows |-> SortTimeseries(DailyMedians(observations, ks[i]))]]

\* the keys of daily_medians, in insertion order
MedianKeys(daily_keys) ==
    Dedupe([i \in 1..Len(daily_keys) |-> daily_keys[i][2]])

\* The files of _export_timeseries, in the order in which its last loop
\* writes them; the unit prices are all computed before the first write.
_export_timeseries(observations) ==
    IF AnyFailure(UnitPrices(observations))
    THEN FirstFailure(UnitPrices(observations))
    ELSE Returned(TimeseriesFiles(observations,
                                  MedianKeys(DailyKeys(observations))))

latest_date_Earliest(dates) ==
    CHOOSE d \in Range(dates) : \A e \in Range(dates) : d <= e

\* sorted(o.date_str for o in observations)[-1]
latest_date(dates) ==
    CHOOSE d \in Range(dates) : \A e \in Range(dates) : e <= d

\* pd.DataFrame(items).sort_values(by=[unit_price_key])
SortLatest(items) ==
    Items(SortPairs([i \in 1..Len(items) |-> <<items[i].Unit_Price, items[i]>>]))

\* items, from the observations of the latest date and their unit prices
LatestItems(on_latest, unit_prices) ==
    IF AnyFailure(unit_prices) THEN FirstFailure(unit_prices)
    ELSE Returned(SortLatest([i \in 1..Len(on_latest) |->
             [Url |-> on_latest[i].url, Unit_Price |-> unit_prices[i].value]]))

\* the observations of the loop that pass if o.date_str == latest_date
OnLatest(observations) ==
    SelectSeq(observations, LAMBDA o :
        date_str(o) = latest_date([i \in 1..Len(observations) |->
                                      date_str(observations[i])]))

\* observations = list(filter(lambda o: o.marketplace == marketplace, ...))
OfMarketplace(all_obs, m) == SelectSeq(all_obs, LAMBDA o : marketplace(o) = m)

\* the rows of the file {marketplace}_latest.csv
_export_latest_marketplace(all_obs, m) ==
    LatestItems(OnLatest(OfMarketplace(all_obs, m)),
                UnitPrices(OnLatest(OfMarketplace(all_obs, m))))

----------------------------------------------------------------------------
(* data.py: export, from _filter_outliers on *)

StaleDir ==
    TimeseriesName(<<"a", "com">>) :> <<[Date |-> 20231231, Median_Unit_Price |-> 2]>>

EmptyDir_NotCleared == StaleDir

EmptyDir == <<>>

Fail(e) ==
    /\ pc' = "failed"
    /\ err' = e

\* filtered_observations = r, or the exception of r ends the command
Filtered(r) ==
    IF Failed(r)
    THEN Fail(r.value[1]) /\ UNCHANGED filtered_observations
    ELSE /\ filtered_observations' = r.value
         /\ pc' = "clear"
         /\ UNCHANGED err

\* filtered_observations = _filter_outliers(all_observations)
FilterOutliers ==
    /\ pc = "filter"
    /\ \E m_order \in Orders({ marketplace(o) : o \in Range(all_observations) }),
          d_order \in Orders({ date_str(o) : o \in Range(all_observations) }) :
         Filtered(_filter_outliers(all_observations, m_order, d_order))
    /\ UNCHANGED <<assignments, res, assignments_dict, hit_idx,
                   all_observations, out_dir, ts_idx, latest_done, written>>

\* shutil.rmtree(out_dir, ignore_errors=True); out_dir.mkdir(parents=True)
ClearOutDir ==
    /\ pc = "clear"
    /\ out_dir' = EmptyDir
    /\ ts_idx' = 1
    /\ pc' = IF filtered_observations = <<>> THEN "done" ELSE "timeseries"
    /\ UNCHANGED <<err, assignments, res, assignments_dict, hit_idx,
                   all_observations, filtered_observations, latest_done,
                   written>>

\* rmtree swallows its errors, so mkdir raises when the directory is still
\* there (FileExistsError) or cannot be created (OSError)
ClearOutDirFails ==
    /\ pc = "clear"
    /\ \E kept \in {out_dir, EmptyDir} : out_dir' = kept
    /\ Fail("OSError")
    /\ UNCHANGED <<assignments, res, assignments_dict, hit_idx,
                   all_observations, filtered_observations, ts_idx,
                   latest_done, written>>

\* df.to_csv(path, index=False) has written the rows
Written(name, rows) ==
    /\ out_dir' = (name :> rows) @@ out_dir
    /\ written' = written \cup {name}

\* one iteration of the last loop of _export_timeseries, files being what
\* the function computed before the loop
WriteTimeseriesFile(files) ==
    IF Failed(files)
    THEN Fail(files.value[1]) /\ UNCHANGED <<out_dir, ts_idx, written>>
    ELSE /\ Written(files.value[ts_idx].name, files.value[ts_idx].rows)
         /\ ts_idx' = ts_idx + 1
         /\ pc' = IF ts_idx = Len(files.value) THEN "latest" ELSE "timeseries"
         /\ UNCHANGED err

WriteTimeseries ==
    /\ pc = "timeseries"
    /\ WriteTimeseriesFile(_export_timeseries(filtered_observations))
    /\ UNCHANGED <<assignments, res, assignments_dict, hit_idx,
                   all_observations, filtered_observations, latest_done>>

\* marketplaces = set(o.marketplace for o in observations)
Marketplaces(observations) == { marketplace(o) : o \in Range(observations) }

\* _export_latest_marketplace(observations, out_dir, m), rows being the rows
\* it computed, and the click.echo after the last marketplace
WriteLatestFile(m, rows) ==
    IF Failed(rows)
    THEN Fail(rows.value[1]) /\ UNCHANGED <<out_dir, latest_done, written>>
    ELSE /\ Written(LatestName(m), rows.value)
         /\ latest_done' = latest_done \cup {m}
         /\ pc' = IF latest_done' = Marketplaces(filtered_observations)
                  THEN "done" ELSE "latest"
         /\ UNCHANGED err

\* one iteration of the loop of _export_latest_observations over the set
\* marketplaces
WriteLatest ==
    /\ pc = "latest"
    /\ \E m \in Marketplaces(filtered_observations) \ latest_done :
         WriteLatestFile(m, _export_latest_marketplace(filtered_observations, m))
    /\ UNCHANGED <<assignments, res, assignments_dict, hit_idx,
                   all_observations, filtered_observations, ts_idx>>

\* The files that the write loops may write next
NextFiles ==
    IF pc = "timeseries"
    THEN {_export_timeseries(filtered_observations).value[ts_idx]}
    ELSE { [name |-> LatestName(m),
            rows |-> _export_latest_marketplace(filtered_observations, m).value] :
             m \in Marketplaces(filtered_observations) \ latest_done }

\* to_csv raises OSError (disk full, directory removed or not writable):
\* the file was not created, or it is left with only its first rows
WriteFails ==
    /\ pc \in {"timeseries", "latest"}
    /\ \E file \in NextFiles :
         \/ out_dir' = out_dir
         \/ \E k \in 0..(Len(file.rows) - 1) :
              out_dir' = (file.name :> SubSeq(file.rows, 1, k)) @@ out_dir
    /\ Fail("OSError")
    /\ UNCHANGED <<assignments, res, assignments_dict, hit_idx,
                   all_observations, filtered_observations, ts_idx,
                   latest_done, written>>

----------------------------------------------------------------------------
(* The exports of a list of observations *)

Url(n) == <<"u", n>>

\* Observations as _consolidate_assignments creates them, one per HIT:
\* <<domain name, creation time, price in cents, currency, quantity, url>>
ObsValues ==
    { <<<<"www", "a", "com">>, DateTime(20240101, 9), 5000, "$", 5, Url(1)>>,
      <<<<"www", "a", "com">>, DateTime(20240101, 17), 500000, "$", 5, Url(2)>>,
      <<<<"a", "com">>, DateTime(20240102, 9), 20000, "$", 10, Url(3)>>,
      <<<<"www", "a", "com">>, DateTime(20240102, 17), 5000, "$", 5, Url(1)>>,
      <<<<"b", "com">>, DateTime(20240102, 9), 2500, "E", 10, Url(4)>> }

ObsOf(v, uuid) ==
    _Observation(v[2], Some(v[3]), Some(v[4]), Some(v[5]), TRUE, v[1], v[6], uuid)

InitObs ==
    /\ pc = "filter"
    /\ err = "none"
    /\ assignments = <<>>
    /\ res = NoResult
    /\ assignments_dict = <<>>
    /\ hit_idx = 0
    /\ \E vs \in SeqsUpTo(ObsValues, MaxObs) :
         all_observations = [i \in 1..Len(vs) |-> ObsOf(vs[i], i)]
    /\ filtered_observations = <<>>
    /\ out_dir = StaleDir
    /\ ts_idx = 0
    /\ latest_done = {}
    /\ written = {}

NextObs ==
    \/ FilterOutliers
    \/ ClearOutDir
    \/ ClearOutDirFails
    \/ WriteTimeseries
    \/ WriteLatest
    \/ WriteFails

SpecObs == InitObs /\ [][NextObs]_vars

----------------------------------------------------------------------------
(* Properties of _filter_outliers and of the two exports *)

FilterReturned == pc \in {"clear", "timeseries", "latest", "done"}

UnitPrice(o) == unit_price_usd(o).value

Bucket(obs, o) ==
    { p \in Range(obs) : marketplace(p) = marketplace(o) /\ date_str(p) = date_str(o) }

RECURSIVE SumFn(_, _)
SumFn(f, S) ==
    IF S = {} THEN 0
    ELSE LET x == CHOOSE y \in S : TRUE IN f[x] + SumFn(f, S \ {x})

\* C5: in a bucket of 3 or more observations whose unit prices in USD are
\* all identical, every observation is retained.
C5_IdenticalBucketRetained ==
    FilterReturned =>
        \A o \in Range(all_observations) :
            LET B == Bucket(all_observations, o)
            IN ( Cardinality(B) >= 3 /\ \A p \in B : UnitPrice(p) = UnitPrice(o) )
               => o \in Range(filtered_observations)

\* |z| < 1 for o in its bucket B, z = (x - mean) / std with the population
\* standard deviation; multiplied through by the bucket size n it reads
\* n * (n*x - sum)^2 < SUM (n*x_p - sum)^2, which is false when std = 0.
ZBelowOne(B, o) ==
    LET n == Cardinality(B)
        total == SumFn([p \in B |-> UnitPrice(p)], B)
        sq == [p \in B |-> (n * UnitPrice(p) - total) * (n * UnitPrice(p) - total)]
    IN n * sq[o] < SumFn(sq, B)

Keys(obs) == { marketplace(o) : o \in Range(obs) }

Group(obs, m, d) ==
    { o \in Range(obs) : marketplace(o) = m /\ date_str(o) = d }

Dates(obs, m) == { date_str(o) : o \in { p \in Range(obs) : marketplace(p) = m } }

\* the k-th smallest unit price of a non-empty set of observations
KthSmallest(G, k) ==
    CHOOSE v \in { UnitPrice(o) : o \in G } :
        /\ Cardinality({ o \in G : UnitPrice(o) < v }) < k
        /\ k <= Cardinality({ o \in G : UnitPrice(o) <= v })

MedianOf(G) ==
    LET n == Cardinality(G)
    IN IF n % 2 = 1 THEN KthSmallest(G, (n + 1) \div 2)
       ELSE (KthSmallest(G, n \div 2) + KthSmallest(G, n \div 2 + 1)) \div 2

TimeseriesWritten == pc \in {"latest", "done"}

\* C9: the time-series export writes one file per marketplace key present,
\* with exactly one row per date on which the marketplace has an
\* observation, the row's value being the median unit price of that
\* (date, marketplace) group, rows in strictly ascending date order.
C9_TimeseriesRows ==
    TimeseriesWritten =>
        /\ { n \in DOMAIN out_dir : n[2] = "timeseries" }
              = { TimeseriesName(m) : m \in Keys(filtered_observations) }
        /\ \A m \in Keys(filtered_observations) :
              LET rows == out_dir[TimeseriesName(m)]
              IN /\ { rows[i].Date : i \in 1..Len(rows) }
                       = Dates(filtered_observations, m)
                 /\ Len(rows) = Cardinality(Dates(filtered_observations, m))
                 /\ \A i \in 1..Len(rows) :
                       rows[i].Median_Unit_Price
                         = MedianOf(Group(filtered_observations, m, rows[i].Date))
                 /\ \A i, j \in 1..Len(rows) :
                       i < j => rows[i].Date < rows[j].Date

\* unit prices 10 and 20 on one (date, marketplace) give the row 15, and the
\* marketplace has a row for an earlier date as well
C9_Witness ==
    /\ TimeseriesWritten
    /\ \E m \in Keys(filtered_observations) :
          /\ { UnitPrice(o) : o \in Group(filtered_observations, m, 20240102) }
                = { 10 * UNITS, 20 * UNITS }
          /\ Cardinality(Group(filtered_observations, m, 20240102)) = 2
          /\ Len(out_dir[TimeseriesName(m)]) = 2
          /\ out_dir[TimeseriesName(m)][2] =
                [Date |-> 20240102, Median_Unit_Price |-> 15 * UNITS]

LatestOf(obs, m) ==
    { o \in Range(obs) :
        /\ marketplace(o) = m
        /\ \A d \in Dates(obs, m) : d <= date_str(o) }

\* C10: the latest-snapshot export writes, for every marketplace key
\* present, one file whose rows are exactly the (url, unit price) pairs of
\* the marketplace's observations on its most recent date, one row per such
\* observation and none from earlier dates, ascending in unit price.
C10_LatestRows ==
    pc = "done" =>
        /\ { n \in DOMAIN out_dir : n[2] = "latest" }
              = { LatestName(m) : m \in Keys(filtered_observations) }
        /\ \A m \in Keys(filtered_observations) :
              LET rows == out_dir[LatestName(m)]
                  L == LatestOf(filtered_observations, m)
              IN /\ Len(rows) = Cardinality(L)
                 /\ \A o \in L :
                       Cardinality({ i \in 1..Len(rows) :
                                       rows[i] = [Url |-> o.url,
                                                  Unit_Price |-> UnitPrice(o)] })
                         = Cardinality({ p \in L : p.url = o.url
                                                   /\ UnitPrice(p) = UnitPrice(o) })
                 /\ \A i, j \in 1..Len(rows) :
                       i < j => rows[i].Unit_Price <= rows[j].Unit_Price

\* a marketplace observed on two dates, with unit prices 20 and 10 (in this
\* order) on the later one: only these two rows, 10 first
C10_Witness ==
    /\ pc = "done"
    /\ \E m \in Keys(filtered_observations) :
          /\ Dates(filtered_observations, m) = {20240101, 20240102}
          /\ \E i, j \in 1..Len(filtered_observations) :
                /\ i < j
                /\ filtered_observations[i] \in LatestOf(filtered_observations, m)
                /\ filtered_observations[j] \in LatestOf(filtered_observations, m)
                /\ UnitPrice(filtered_observations[i]) = 20 * UNITS
                /\ UnitPrice(filtered_observations[j]) = 10 * UNITS
          /\ Len(out_dir[LatestName(m)]) = 2
          /\ out_dir[LatestName(m)][1].Unit_Price = 10 * UNITS
          /\ out_dir[LatestName(m)][2].Unit_Price = 20 * UNITS

----------------------------------------------------------------------------
(* Consolidation of the assignments of one HIT *)

Hit1 == HIT(DateTime(20240101, 9), "u1", <<"www", "a", "com">>)

\* Answers the store can hold: price = Column(Float), currency =
\* Column(String), quantity = Column(Integer) are nullable, in_stock is not.
ConsolidateAnswers ==
    { <<Some(1000), Some(5), Some("$"), TRUE>>,
      <<Some(1000), Some(500), Some("$"), TRUE>>,
      <<Some(1000), Some(7), Some("$"), TRUE>>,
      <<Some(1000), Some(505), Some("$"), TRUE>>,
      <<Some(1000), Some(0), Some("$"), TRUE>>,
      <<Some(0), Some(5), Some("$"), TRUE>>,
      <<Some(-500), Some(5), Some("$"), TRUE>>,
      <<Some(1000), None, Some("$"), TRUE>>,
      <<None, Some(5), None, FALSE>>,
      <<None, None, None, FALSE>>,
      <<Some(1000), Some(5), Some("$"), FALSE>>,
      <<Some(1000), Some(5), Some("E"), TRUE>> }

ConsolidateReports ==
    { Assignment(Hit1, t[4], t[1], t[3], t[2]) : t \in ConsolidateAnswers }

IdleExport ==
    /\ assignments_dict = <<>>
    /\ hit_idx = 0
    /\ all_observations = <<>>
    /\ filtered_observations = <<>>
    /\ out_dir = <<>>
    /\ ts_idx = 0
    /\ latest_done = {}
    /\ written = {}

InitConsolidate ==
    /\ pc = "call_consolidate"
    /\ err = "none"
    /\ assignments \in SeqsUpTo(ConsolidateReports, MaxReports)
    /\ res = NoResult
    /\ IdleExport

ConsolidateCall ==
    /\ pc = "call_consolidate"
    /\ res' = _consolidate_assignments(assignments, 1)
    /\ pc' = IF res'.tag = "raise" THEN "raised" ELSE "returned"
    /\ err' = IF res'.tag = "raise" THEN res'.value[1] ELSE "none"
    /\ UNCHANGED <<assignments, assignments_dict, hit_idx, all_observations,
                   filtered_observations, out_dir, ts_idx, latest_done,
                   written>>

NextConsolidate == ConsolidateCall

SpecConsolidate == InitConsolidate /\ [][NextConsolidate]_vars

----------------------------------------------------------------------------
(* Properties of _consolidate_assignments *)

ConsolidateEnded == pc \in {"returned", "raised"}

SameAnswer(a, b) ==
    /\ a.price = b.price
    /\ a.quantity = b.quantity
    /\ a.currency = b.currency
    /\ a.in_stock = b.in_stock

Occurrences(as, i) ==
    Cardinality({ j \in 1..Len(as) : SameAnswer(as[j], as[i]) })

\* The index of the first report of the tuple that is selected: the first
\* one, in order of appearance, whose tuple has the maximum count.
SelectedIndex(as) ==
    CHOOSE i \in 1..Len(as) :
        /\ \A j \in 1..Len(as) : Occurrences(as, j) <= Occurrences(as, i)
        /\ \A j \in 1..(i - 1) : Occurrences(as, j) < Occurrences(as, i)

\* C1: for a non-empty list of reports in which no tuple (price, quantity,
\* currency, in_stock) occurs at least 2 times, the call returns none,
\* whatever the field values are.
C1_NoConsensusReturnsNone ==
    ( /\ ConsolidateEnded
      /\ assignments # <<>>
      /\ \A i \in 1..Len(assignments) : Occurrences(assignments, i) < 2 )
    => res = Returned(None)

C1_Witness ==
    /\ pc = "returned"
    /\ Len(assignments) = 3
    /\ \A i \in 1..3 : Occurrences(assignments, i) = 1
    /\ \E i \in 1..3 : assignments[i].quantity = None
    /\ \E i \in 1..3 : assignments[i].price = None
    /\ res = Returned(None)

QuantityAccepted(q) ==
    q # None /\ q[1] >= 5 /\ q[1] <= 500 /\ q[1] % 5 = 0

\* C2: when the selected majority tuple occurs at least 2 times, the call
\* returns an Observation exactly when the majority quantity is a multiple
\* of 5 within 5..500 and the majority price is nonzero, and returns none
\* otherwise; the Observation carries the majority values and the task's
\* creation timestamp, URL and domain name.
C2_MajorityAcceptedIffSane ==
    ( /\ ConsolidateEnded
      /\ assignments # <<>>
      /\ Occurrences(assignments, SelectedIndex(assignments)) >= 2 )
    => LET m == assignments[SelectedIndex(assignments)]
       IN IF QuantityAccepted(m.quantity) /\ m.price # Some(0)
          THEN /\ res.tag = "return"
               /\ res.value # None
               /\ res.value[1].price_cents = m.price
               /\ res.value[1].quantity = m.quantity
               /\ res.value[1].currency_symbol = m.currency
               /\ res.value[1].in_stock = m.in_stock
               /\ res.value[1].datetime = m.hit.creation_time
               /\ res.value[1].url = m.hit.url_param
               /\ res.value[1].domain_name = m.hit.domain_name
          ELSE res = Returned(None)

\* C3: the call never raises: it returns an Observation or none, also for
\* reports with absent price, currency or quantity and for ties.
C3_NeverRaises == ConsolidateEnded => res.tag = "return"

\* C4: every Observation the call creates has quantity > 0 and price > 0.
C4_ObservationPositive ==
    ( ConsolidateEnded /\ res.tag = "return" /\ res.value # None )
    => LET o == res.value[1]
       IN /\ o.quantity # None /\ o.quantity[1] > 0
          /\ o.price_cents # None /\ o.price_cents[1] > 0

----------------------------------------------------------------------------
(* data.py: export, the whole command *)

\* HIT i of the store: marketplaces and creation dates alternate
HitOf(i) ==
    HIT(DateTime(IF i % 3 = 0 THEN 20240102 ELSE 20240101, 9), Url(i),
        IF i % 2 = 0 THEN <<"b", "com">> ELSE <<"www", "a", "com">>)

\* The answers of the workers of one HIT, as <<price, quantity, currency,
\* in_stock>>: one worker alone, two workers who agree, or four workers of
\* whom two and two agree
StoredAnswers ==
    { << <<Some(5000), Some(5), Some("$"), TRUE>> >>,
      << <<Some(5000), Some(5), Some("$"), TRUE>>,
         <<Some(5000), Some(5), Some("$"), TRUE>> >>,
      << <<Some(2500), Some(10), Some("E"), TRUE>>,
         <<Some(2500), Some(10), Some("E"), TRUE>> >>,
      << <<Some(5000), Some(5), Some("Y"), TRUE>>,
         <<Some(5000), Some(5), Some("Y"), TRUE>> >>,
      << <<Some(5000), Some(5), Some("#"), TRUE>>,
         <<Some(5000), Some(5), Some("#"), TRUE>> >>,
      << <<Some(5000), None, Some("$"), TRUE>>,
         <<Some(5000), None, Some("$"), TRUE>> >>,
      << <<None, Some(5), None, FALSE>>,
         <<None, Some(5), None, FALSE>> >>,
      << <<Some(5000), Some(5), Some("$"), TRUE>>,
         <<Some(2500), Some(10), Some("E"), TRUE>>,
         <<Some(2500), Some(10), Some("E"), TRUE>>,
         <<Some(5000), Some(5), Some("$"), TRUE>> >> }

AssignmentsOf(i, answers) ==
    [j \in 1..Len(answers) |->
        Assignment(HitOf(i), answers[j][4], answers[j][1], answers[j][3],
                   answers[j][2])]

Init ==
    /\ pc = "consolidate"
    /\ err = "none"
    /\ assignments = <<>>
    /\ res = NoResult
    /\ \E answers \in [1..NumHits -> StoredAnswers] :
         assignments_dict = [i \in 1..NumHits |-> AssignmentsOf(i, answers[i])]
    /\ hit_idx = 1
    /\ all_observations = <<>>
    /\ filtered_observations = <<>>
    /\ out_dir = StaleDir
    /\ ts_idx = 0
    /\ latest_done = {}
    /\ written = {}

\* one iteration of the loop over assignments_dict.values()
ConsolidateNext ==
    /\ pc = "consolidate"
    /\ assignments' = assignments_dict[hit_idx]
    /\ res' = _consolidate_assignments(assignments', hit_idx)
    /\ IF Failed(res')
       THEN Fail(res'.value[1]) /\ UNCHANGED <<all_observations, hit_idx>>
       ELSE /\ all_observations' =
                  IF res'.value # None
                  THEN Append(all_observations, res'.value[1])
                  ELSE all_observations
            /\ hit_idx' = hit_idx + 1
            /\ pc' = IF hit_idx = Len(assignments_dict) THEN "filter"
                     ELSE "consolidate"
            /\ UNCHANGED err
    /\ UNCHANGED <<assignments_dict, filtered_observations, out_dir, ts_idx,
                   latest_done, written>>

Next ==
    \/ ConsolidateNext
    \/ FilterOutliers
    \/ ClearOutDir
    \/ ClearOutDirFails
    \/ WriteTimeseries
    \/ WriteLatest
    \/ WriteFails

Spec == Init /\ [][Next]_vars

----------------------------------------------------------------------------
(* Properties of the export command *)

Ended == pc \in {"done", "failed"}

CompleteSet ==
    { TimeseriesName(m) : m \in Keys(filtered_observations) }
        \cup { LatestName(m) : m \in Keys(filtered_observations) }

\* C7 as stated: when the command has ended, the output directory holds
\* the complete set of time-series and latest-snapshot files of this run,
\* or the run failed before any export file was written.
C7_NoPartialOutput ==
    Ended =>
        \/ written = CompleteSet /\ DOMAIN out_dir = CompleteSet
        \/ pc = "failed" /\ written = {} /\ out_dir \in {StaleDir, <<>>}

\* C7 as amended: a run that ends without error leaves exactly the complete
\* set of files; a run that fails with an error other than a failed write
\* or mkdir has written no file; a failed mkdir or write leaves no file of
\* this run, or a proper part of the set: the files written before the
\* failure and at most one incomplete file.
C7_PartialOnlyOnWriteFailure ==
    Ended =>
        \/ /\ pc = "done"
           /\ written = CompleteSet
           /\ DOMAIN out_dir = CompleteSet
        \/ /\ pc = "failed"
           /\ err # "OSError"
           /\ written = {}
           /\ out_dir = StaleDir
        \/ /\ pc = "failed"
           /\ err = "OSError"
           /\ written = {}
           /\ out_dir \in {StaleDir, <<>>}
        \/ /\ pc = "failed"
           /\ err = "OSError"
           /\ written \subseteq CompleteSet
           /\ written # CompleteSet
           /\ written \subseteq DOMAIN out_dir
           /\ DOMAIN out_dir \subseteq CompleteSet
           /\ Cardinality(DOMAIN out_dir \ written) <= 1
           /\ \A n \in written : n[2] = "latest" =>
                 \A m \in Keys(filtered_observations) :
                     TimeseriesName(m) \in written

\* a write fails after some, not all, files of the run were written
C7_Witness ==
    /\ pc = "failed"
    /\ err = "OSError"
    /\ written # {}
    /\ written # CompleteSet
    /\ written \subseteq DOMAIN out_dir

\* C8: an observation whose currency symbol is not "$" and does not resolve
\* to exactly one currency code aborts the run when its USD price is
\* computed (in _filter_outliers), so the run never gets past that call.
C8_UnresolvedCurrencyAborts ==
    FilterReturned =>
        \A o \in Range(all_observations) :
            \/ o.currency_symbol = Some("$")
            \/ /\ ~Failed(Iso4217Parse(o.currency_symbol))
               /\ Len(Iso4217Parse(o.currency_symbol).value) = 1

\* The observations that another run of the command makes of the reports
\* of the first n HITs of the store; its uuid4 values are not those of the
\* run observed
RECURSIVE SecondRunObservations(_)
SecondRunObservations(n) ==
    IF n = 0 THEN <<>>
    ELSE IF _consolidate_assignments(assignments_dict[n], NumHits + n).value = None
    THEN SecondRunObservations(n - 1)
    ELSE Append(SecondRunObservations(n - 1),
                _consolidate_assignments(assignments_dict[n], NumHits + n).value[1])

SecondRunRaises ==
    \E n \in 1..Len(assignments_dict) :
        Failed(_consolidate_assignments(assignments_dict[n], NumHits + n))

\* the files that the two exports write of a list of observations, as
\* <<file name, rows>>
FilesOf(observations) ==
    { <<f.name, f.rows>> : f \in Range(_export_timeseries(observations).value) }
        \cup { <<LatestName(m), _export_latest_marketplace(observations, m).value>> :
                 m \in Marketplaces(observations) }

\* the files of the output directory, as <<file name, rows>>
DirFiles == { <<n, out_dir[n]>> : n \in DOMAIN out_dir }

\* the lists that _filter_outliers can return of a list of observations,
\* one for each order of iteration of its two sets
FilterResults(observations) ==
    { _filter_outliers(observations, m_order, d_order) :
        m_order \in Orders({ marketplace(o) : o \in Range(observations) }),
        d_order \in Orders({ date_str(o) : o \in Range(observations) }) }

TiedMajority(i) ==
    Cardinality({ j \in 1..Len(CountAll(<<>>, assignments_dict[i])) :
                    CountAll(<<>>, assignments_dict[i])[j].n
                        = MaxCount(CountAll(<<>>, assignments_dict[i])) }) > 1

====
